---- MODULE Spec2Model ----
(***************************************************************************)
(* The notebook notebooks/03_IntroductionToNumpy as a state machine: one   *)
(* Python kernel whose variables are bound and mutated by the notebook's   *)
(* 81 code cells, run once each from top to bottom, one statement per      *)
(* step.  Beside the kernel, a second machine runs every cell from an      *)
(* empty variable state, so that a cell's dependence on earlier cells can  *)
(* be read off a single state.                                             *)
(*                                                                         *)
(* Arrays live on a heap of buffers; a variable holds a view (buffer id    *)
(* and shape), so that reshape shares its operand's buffer as numpy's      *)
(* does.  float64 values are carried as extended rationals n/d (d = 0:     *)
(* inf, -inf, nan) or as a named function of one (sqrt, log, ...).         *)
(***************************************************************************)
EXTENDS Integers, Sequences, FiniteSets, TLC

VARIABLES pc, st, iter, k, f

vars == <<pc, st, iter, k, f>>

\* The names the notebook's cells bind or read.
Names == {"np", "plt", "a", "b", "x", "y", "z", "idx", "mask", "theta", "sintheta", "i"}

Unbound == [kind |-> "unbound"]

Module(n) == [kind |-> "module", name |-> n]

View(buf, shape) == [kind |-> "ndarray", buf |-> buf, shape |-> shape]

\* A Python session with no variable bound.
EmptyMachine == [env |-> [n \in Names |-> Unbound], heap |-> << >>, nb |-> 1,
                 out |-> << >>, err |-> "none"]

----------------------------------------------------------------------------
\* Shapes and row-major order.

RECURSIVE Prod(_)
Prod(s) == IF Len(s) = 0 THEN 1 ELSE Head(s) * Prod(Tail(s))

RECURSIVE Ravel(_, _)
Ravel(ix, shape) ==
  IF Len(ix) = 0 THEN 0
  ELSE Head(ix) * Prod(Tail(shape)) + Ravel(Tail(ix), Tail(shape))

RECURSIVE Unravel(_, _)
Unravel(p, shape) ==
  IF Len(shape) = 0 THEN << >>
  ELSE <<p \div Prod(Tail(shape))>> \o Unravel(p % Prod(Tail(shape)), Tail(shape))

Arr(shape, dtype, data) == [shape |-> shape, dtype |-> dtype, data |-> data]

Scalar(dtype, v) == Arr(<< >>, dtype, <<v>>)

\* np.array(list) of Python ints
ArrayOf(list) == Arr(<<Len(list)>>, "int64", list)

\* np.arange(lo, hi)
Arange(lo, hi) == Arr(<<hi - lo>>, "int64", [j \in 1..(hi - lo) |-> lo + j - 1])

\* Reshape gone wrong: the elements laid out in column-major order
ReshapeColumnMajor(a, shape) ==
  Arr(shape, a.dtype,
      [p \in 1..Prod(shape) |->
         a.data[Ravel([j \in 1..Len(shape) |-> Unravel(p - 1, shape)[Len(shape) + 1 - j]],
                      [j \in 1..Len(shape) |-> shape[Len(shape) + 1 - j]]) + 1]])

\* Reshape gone wrong: the operand comes back in its own shape
ReshapeKeepsShape(a, shape) == a

\* a.reshape(shape): the same elements in the same row-major order
Reshape(a, shape) == Arr(shape, a.dtype, a.data)

ReshapeError(a, shape) == IF Prod(shape) = Prod(a.shape) THEN "none" ELSE "ValueError"

----------------------------------------------------------------------------
\* Basic indexing: one selector per axis, an integer or a slice start:stop:step
\* with start and stop left out; axes not named are taken whole.

At(i) == [t |-> "int", i |-> i, step |-> 0]

Slice(step) == [t |-> "slice", i |-> 0, step |-> step]

\* A negative index gone wrong: counted from the front, -1 naming the first
\* element
NormFromFront(i, n) == IF i < 0 THEN -i - 1 ELSE i

\* A negative index counts from the end.
Norm(i, n) == IF i < 0 THEN i + n ELSE i

SliceSel(n, step) ==
  IF step > 0
  THEN [j \in 1..((n + step - 1) \div step) |-> (j - 1) * step]
  ELSE [j \in 1..((n - step - 1) \div (-step)) |-> n - 1 + (j - 1) * step]

Pad(sel, nd) == sel \o [j \in 1..(nd - Len(sel)) |-> Slice(1)]

AxisSel(s, n) == IF s.t = "int" THEN <<Norm(s.i, n)>> ELSE SliceSel(n, s.step)

RECURSIVE Kept(_, _)
Kept(full, lens) ==
  IF Len(full) = 0 THEN << >>
  ELSE (IF Head(full).t = "int" THEN << >> ELSE <<Head(lens)>>)
       \o Kept(Tail(full), Tail(lens))

IndexError(a, sel) ==
  IF Len(sel) > Len(a.shape) THEN "IndexError"
  ELSE IF \E ax \in 1..Len(sel) :
            /\ sel[ax].t = "int"
            /\ Norm(sel[ax].i, a.shape[ax]) \notin 0..(a.shape[ax] - 1)
       THEN "IndexError"
       ELSE "none"

GetItem(a, sel) ==
  LET nd    == Len(a.shape)
      full  == Pad(sel, nd)
      picks == [ax \in 1..nd |-> AxisSel(full[ax], a.shape[ax])]
      lens  == [ax \in 1..nd |-> Len(picks[ax])]
  IN  Arr(Kept(full, lens), a.dtype,
          [p \in 1..Prod(lens) |->
             LET u == Unravel(p - 1, lens)
             IN  a.data[Ravel([ax \in 1..nd |-> picks[ax][u[ax] + 1]], a.shape) + 1]])

----------------------------------------------------------------------------
\* Whole-array operations.

Reverse(s) == [j \in 1..Len(s) |-> s[Len(s) + 1 - j]]

\* a.T: the axes reversed
Transpose(a) ==
  LET shape == Reverse(a.shape)
  IN  Arr(shape, a.dtype,
          [p \in 1..Prod(shape) |-> a.data[Ravel(Reverse(Unravel(p - 1, shape)), a.shape) + 1]])

\* a[[i1, i2, ...]] on a 1-D array: the elements at the listed positions
Take(a, list) == Arr(<<Len(list)>>, a.dtype, [q \in 1..Len(list) |-> a.data[Norm(list[q], a.shape[1]) + 1]])

TakeError(a, list) ==
  IF \E q \in 1..Len(list) : Norm(list[q], a.shape[1]) \notin 0..(a.shape[1] - 1)
  THEN "IndexError" ELSE "none"

\* > gone wrong: read as >=
CmpLoose(a, op, c) ==
  Arr(a.shape, "bool",
      [p \in 1..Len(a.data) |->
         CASE op = "==" -> a.data[p] = c
           [] op = ">"  -> a.data[p] >= c
           [] op = "<"  -> a.data[p] < c
           [] op = "<=" -> a.data[p] <= c])

\* a == c, a > c, a < c, a <= c for a number c: a bool for every element, in
\* the operand's shape
Cmp(a, op, c) ==
  Arr(a.shape, "bool",
      [p \in 1..Len(a.data) |->
         CASE op = "==" -> a.data[p] = c
           [] op = ">"  -> a.data[p] > c
           [] op = "<"  -> a.data[p] < c
           [] op = "<=" -> a.data[p] <= c])

And(x, y) == Arr(x.shape, "bool", [p \in 1..Len(x.data) |-> x.data[p] /\ y.data[p]])

Or(x, y) == Arr(x.shape, "bool", [p \in 1..Len(x.data) |-> x.data[p] \/ y.data[p]])

\* The flat positions (from 1) where c holds, in row-major order
Hits(c) ==
  LET Holds(p) == c.data[p]
  IN  SelectSeq([p \in 1..Len(c.data) |-> p], Holds)

\* where gone wrong: the axes in the opposite order
WhereAxesSwapped(c) ==
  LET hits == Hits(c)
  IN  [ax \in 1..Len(c.shape) |->
         Arr(<<Len(hits)>>, "int64",
             [q \in 1..Len(hits) |-> Unravel(hits[q] - 1, c.shape)[Len(c.shape) + 1 - ax]])]

\* np.where(c): for every axis, the index along it of each True element
Where(c) ==
  LET hits == Hits(c)
  IN  [ax \in 1..Len(c.shape) |->
         Arr(<<Len(hits)>>, "int64",
             [q \in 1..Len(hits) |-> Unravel(hits[q] - 1, c.shape)[ax]])]

\* The flat position (from 1) in a of the q-th index of the index tuple ix
TuplePos(shape, ix, q) == Ravel([ax \in 1..Len(ix) |-> Norm(ix[ax].data[q], shape[ax])], shape) + 1

\* Indexing by a tuple gone wrong: the result keeps the shape of a, with the
\* elements not selected left in
TupleItemKeepsShape(a, ix) == a

\* a[ix] for a tuple ix of index arrays, one per axis: a 1-D array
TupleItem(a, ix) ==
  Arr(ix[1].shape, a.dtype, [q \in 1..Len(ix[1].data) |-> a.data[TuplePos(a.shape, ix, q)]])

TupleError(a, ix) ==
  IF Len(ix) > Len(a.shape) THEN "IndexError"
  ELSE IF \E ax \in 1..Len(ix) : \E q \in 1..Len(ix[ax].data) :
            Norm(ix[ax].data[q], a.shape[ax]) \notin 0..(a.shape[ax] - 1)
       THEN "IndexError"
       ELSE "none"

ShapeError(x, y) == IF x.shape = y.shape THEN "none" ELSE "ValueError"

\* x + y and x * y of integer arrays of one shape, element by element
Add(x, y) == Arr(x.shape, "int64", [p \in 1..Len(x.data) |-> x.data[p] + y.data[p]])

Mul(x, y) == Arr(x.shape, "int64", [p \in 1..Len(x.data) |-> x.data[p] * y.data[p]])

----------------------------------------------------------------------------
\* float64 values.

Abs(v) == IF v < 0 THEN -v ELSE v

Sgn(v) == IF v < 0 THEN -1 ELSE IF v > 0 THEN 1 ELSE 0

RECURSIVE GCD(_, _)
GCD(u, v) == IF v = 0 THEN u ELSE GCD(v, u % v)

\* x / y of two integers as a float: the quotient in lowest terms; x / 0 is
\* inf or -inf (n = 1 or -1 over d = 0) and 0 / 0 is nan (0 over 0).
Quot(x, y) ==
  IF y = 0 THEN [fn |-> "rat", n |-> Sgn(x), d |-> 0]
  ELSE LET g == GCD(Abs(x), Abs(y))
       IN  [fn |-> "rat", n |-> (Sgn(y) * x) \div g, d |-> Abs(y) \div g]

IsInfVal(v) == v.fn = "rat" /\ v.d = 0 /\ v.n # 0

\* x / y of integer arrays of one shape: always float64
Div(x, y) == Arr(x.shape, "float64", [p \in 1..Len(x.data) |-> Quot(x.data[p], y.data[p])])

\* Division gone wrong: the quotient truncated and left in the operand's type
DivByFloor(x, c) == Arr(x.shape, x.dtype, [p \in 1..Len(x.data) |-> x.data[p] \div c])

\* x / c of an integer array by a Python int
DivBy(x, c) == Arr(x.shape, "float64", [p \in 1..Len(x.data) |-> Quot(x.data[p], c)])

\* np.isinf(z)
IsInf(z) == Arr(z.shape, "bool", [p \in 1..Len(z.data) |-> IsInfVal(z.data[p])])

\* An integer array times a Python int, and to an integer power
MulBy(x, c) == Arr(x.shape, x.dtype, [p \in 1..Len(x.data) |-> x.data[p] * c])

RECURSIVE PowInt(_, _)
PowInt(v, e) == IF e = 0 THEN 1 ELSE v * PowInt(v, e - 1)

PowBy(x, e) == Arr(x.shape, x.dtype, [p \in 1..Len(x.data) |-> PowInt(x.data[p], e)])

Pow(x, y) == Arr(x.shape, x.dtype, [p \in 1..Len(x.data) |-> PowInt(x.data[p], y.data[p])])

\* Values numpy computes in floating point and that are no rationals are
\* carried by name: fn of n/d, with "pi" for n/d times pi and "sinpi" for the
\* sine of n/d times pi.
SqrtVal(v) ==
  LET r == CHOOSE r \in 0..v : r * r <= v /\ (r + 1) * (r + 1) > v
  IN  IF r * r = v THEN Quot(r, 1) ELSE [fn |-> "sqrt", n |-> v, d |-> 1]

LogVal(fn, v) ==
  IF v = 1 THEN Quot(0, 1)
  ELSE IF v = 0 THEN Quot(-1, 0)
  ELSE IF v < 0 THEN Quot(0, 0)
  ELSE [fn |-> fn, n |-> v, d |-> 1]

\* An integer times np.pi
TimesPi(v) == IF v = 0 THEN Quot(0, 1) ELSE [fn |-> "pi", n |-> v, d |-> 1]

\* A float (a rational, or a rational times pi) divided by a Python int
FloatBy(v, c) ==
  LET q == Quot(v.n, v.d * c)
  IN  [fn |-> v.fn, n |-> q.n, d |-> q.d]

SinVal(v) == IF v.fn = "rat" /\ v.n = 0 /\ v.d # 0 THEN v ELSE [fn |-> "sinpi", n |-> v.n, d |-> v.d]

\* np.sqrt, np.log, np.log10 of an integer array and np.sin of a float array
Apply(fn, x) ==
  Arr(x.shape, "float64",
      [p \in 1..Len(x.data) |->
         CASE fn = "sqrt" -> SqrtVal(x.data[p])
           [] fn = "sin"  -> SinVal(x.data[p])
           [] OTHER       -> LogVal(fn, x.data[p])])

MulPi(x) == Arr(x.shape, "float64", [p \in 1..Len(x.data) |-> TimesPi(x.data[p])])

FloatDivBy(x, c) == Arr(x.shape, "float64", [p \in 1..Len(x.data) |-> FloatBy(x.data[p], c)])

\* Reductions.
RECURSIVE SumInt(_, _, _)
SumInt(s, lo, hi) ==
  IF lo > hi THEN 0
  ELSE IF lo = hi THEN s[lo]
  ELSE SumInt(s, lo, (lo + hi) \div 2) + SumInt(s, (lo + hi) \div 2 + 1, hi)

RECURSIVE MaxInt(_, _, _)
MaxInt(s, lo, hi) ==
  IF lo = hi THEN s[lo]
  ELSE LET l == MaxInt(s, lo, (lo + hi) \div 2)
           r == MaxInt(s, (lo + hi) \div 2 + 1, hi)
       IN  IF l >= r THEN l ELSE r

\* a.sum(), a.max(), a.mean() of an integer array
SumAll(a) == Scalar("int64", SumInt(a.data, 1, Len(a.data)))

MaxAll(a) == Scalar(a.dtype, MaxInt(a.data, 1, Len(a.data)))

MeanAll(a) == Scalar("float64", Quot(SumInt(a.data, 1, Len(a.data)), Len(a.data)))

Drop(shape, ax) == [j \in 1..(Len(shape) - 1) |-> IF j < ax THEN shape[j] ELSE shape[j + 1]]

Insert(u, ax, i) ==
  [j \in 1..(Len(u) + 1) |-> IF j < ax THEN u[j] ELSE IF j = ax THEN i ELSE u[j - 1]]

\* The elements along axis ax (from 1) that reduce to flat position p of the result
AxisLine(a, ax, p) ==
  [i \in 1..a.shape[ax] |->
     a.data[Ravel(Insert(Unravel(p - 1, Drop(a.shape, ax)), ax, i - 1), a.shape) + 1]]

\* a.mean(axis = ax - 1) of an integer array
MeanAxis(a, ax) ==
  Arr(Drop(a.shape, ax), "float64",
      [p \in 1..Prod(Drop(a.shape, ax)) |->
         Quot(SumInt(AxisLine(a, ax, p), 1, a.shape[ax]), a.shape[ax])])

\* complex64 values: a real and an imaginary part, each a float
Cplx(re, im) == [fn |-> "complex", re |-> Quot(re, 1), im |-> Quot(im, 1)]

RatAdd(x, y) == Quot(x.n * y.d + y.n * x.d, x.d * y.d)

RatLess(x, y) == x.n * y.d < y.n * x.d

CAdd(x, y) == [fn |-> "complex", re |-> RatAdd(x.re, y.re), im |-> RatAdd(x.im, y.im)]

\* numpy orders complex numbers by real part, then by imaginary part
CLess(x, y) == RatLess(x.re, y.re) \/ (x.re = y.re /\ RatLess(x.im, y.im))

RECURSIVE SumCplx(_, _, _)
SumCplx(s, lo, hi) ==
  IF lo > hi THEN Cplx(0, 0)
  ELSE IF lo = hi THEN s[lo]
  ELSE CAdd(SumCplx(s, lo, (lo + hi) \div 2), SumCplx(s, (lo + hi) \div 2 + 1, hi))

CSumAll(a) == Scalar(a.dtype, SumCplx(a.data, 1, Len(a.data)))

CSumAxis(a, ax) ==
  Arr(Drop(a.shape, ax), a.dtype,
      [p \in 1..Prod(Drop(a.shape, ax)) |-> SumCplx(AxisLine(a, ax, p), 1, a.shape[ax])])

CMaxAll(a) ==
  Scalar(a.dtype, CHOOSE v \in {a.data[p] : p \in 1..Len(a.data)} :
                    \A p \in 1..Len(a.data) : ~CLess(v, a.data[p]))

CMinAll(a) ==
  Scalar(a.dtype, CHOOSE v \in {a.data[p] : p \in 1..Len(a.data)} :
                    \A p \in 1..Len(a.data) : ~CLess(a.data[p], v))

\* a.real and a.imag of a complex64 array: float32
Real(a) == Arr(a.shape, "float32", [p \in 1..Len(a.data) |-> a.data[p].re])

Imag(a) == Arr(a.shape, "float32", [p \in 1..Len(a.data) |-> a.data[p].im])

Uint8Mod == 256

\* A Python or numpy integer stored into an array of the given dtype
CastInt(v, dtype) ==
  CASE dtype = "uint8"   -> v % Uint8Mod
    [] dtype = "int64"   -> v
    [] dtype = "float64" -> Quot(v, 1)
    [] dtype = "complex64" -> Cplx(v, 0)

\* a.astype(dtype): an integer is cast as on assignment; a float going to an
\* integer type loses its fraction first
AstypeVal(v, from, to) ==
  IF from \in {"int64", "uint8"} THEN CastInt(v, to)
  ELSE CastInt(Sgn(v.n) * (Abs(v.n) \div v.d), to)

Astype(a, to) == Arr(a.shape, to, [p \in 1..Len(a.data) |-> AstypeVal(a.data[p], a.dtype, to)])

\* np.zeros(shape, dtype)
Zeros(shape, dtype) == Arr(shape, dtype, [p \in 1..Prod(shape) |-> CastInt(0, dtype)])

----------------------------------------------------------------------------
\* The machine: bindings, buffers, output.

ValOf(m, n) ==
  LET e == m.env[n]
  IN  Arr(e.shape, m.heap[e.buf].dtype, m.heap[e.buf].data)

Refs(bind, j) ==
  \/ bind.kind = "ndarray" /\ bind.buf = j
  \/ bind.kind = "tuple" /\ \E t \in 1..Len(bind.items) : bind.items[t].buf = j

\* CPython frees a buffer when the last reference to it goes.
Collect(h, e) == [j \in {b \in DOMAIN h : \E n \in Names : Refs(e[n], b)} |-> h[j]]

Bind(m, n, bind, h) ==
  LET e == [m.env EXCEPT ![n] = bind]
  IN  [m EXCEPT !.env = e, !.heap = Collect(h, e)]

\* n = <an expression making a new array>
BindNew(m, n, a) ==
  [Bind(m, n, View(m.nb, a.shape), m.heap @@ (m.nb :> [dtype |-> a.dtype, data |-> a.data]))
     EXCEPT !.nb = m.nb + 1]

\* n = src.reshape(shape): a view of src's buffer
BindView(m, n, src, shape) == Bind(m, n, View(m.env[src].buf, shape), m.heap)

Emit(m, how, val) == [m EXCEPT !.out = Append(m.out, [how |-> how, val |-> val])]

\* The warning numpy writes when a divisor is zero
DivWarn(m, y) ==
  IF \E p \in 1..Len(y.data) : y.data[p] = 0 THEN Emit(m, "RuntimeWarning", << >>) ELSE m

\* One statement: skipped once the cell has stopped; NameError when a name it
\* reads is not bound; then the error its operation raises, if any.
Stmt(m, reads, fails, res) ==
  IF m.err # "none" THEN m
  ELSE IF \E n \in reads : m.env[n].kind = "unbound" THEN [m EXCEPT !.err = "NameError"]
  ELSE IF fails # "none" THEN [m EXCEPT !.err = fails]
  ELSE res

\* Assignment by index gone wrong: the value goes to every element
SetItemEverywhere(m, n, sel, v) ==
  [m EXCEPT !.heap[m.env[n].buf].data = [p \in 1..Len(m.heap[m.env[n].buf].data) |-> v]]

\* Assignment by index gone wrong: the index counted from 1
SetItemFromOne(m, n, sel, v) ==
  LET e == m.env[n]
      p == Ravel([ax \in 1..Len(sel) |-> Norm(sel[ax].i, e.shape[ax])], e.shape)
  IN  [m EXCEPT !.heap[e.buf].data[p] = v]

\* a[i, ...] = v: only the buffer's element at that index changes
SetItem(m, n, sel, v) ==
  LET e == m.env[n]
      p == Ravel([ax \in 1..Len(sel) |-> Norm(sel[ax].i, e.shape[ax])], e.shape) + 1
  IN  [m EXCEPT !.heap[e.buf].data[p] = v]

\* Entering a cell: the kernel keeps its variables, the output area is new.
Enter(s, m) == IF s = 1 THEN [m EXCEPT !.out = << >>, !.err = "none"] ELSE m

\* A new session gone wrong: the kernel's variables are still there
EnterKept(s, m) == IF s = 1 THEN [m EXCEPT !.out = << >>, !.err = "none"] ELSE m

\* The same cell, run in a session with no variable bound.
EnterFresh(s, m) == IF s = 1 THEN EmptyMachine ELSE m

\* Statement st of the current cell, of n statements: km and fm are the two
\* machines after it.  A cell that raised is left; the reader goes on with the next cell.
Exec(n, km, fm) ==
  /\ k' = km
  /\ f' = fm
  /\ IF st < n /\ km.err = "none"
     THEN pc' = pc /\ st' = st + 1
     ELSE pc' = pc + 1 /\ st' = 1
  /\ UNCHANGED iter

DtypeOf(m, n) == m.heap[m.env[n].buf].dtype

\* The value of a variable bound to a tuple of arrays
TupleOf(m, n) ==
  LET e == m.env[n]
  IN  [t \in 1..Len(e.items) |->
         Arr(e.items[t].shape, m.heap[e.items[t].buf].dtype, m.heap[e.items[t].buf].data)]

\* n = <an expression making a tuple of new arrays>
BindTuple(m, n, arrs) ==
  [Bind(m, n,
        [kind |-> "tuple", items |-> [t \in 1..Len(arrs) |-> View(m.nb + t - 1, arrs[t].shape)]],
        [j \in DOMAIN m.heap \cup (m.nb..(m.nb + Len(arrs) - 1)) |->
           IF j \in DOMAIN m.heap THEN m.heap[j]
           ELSE [dtype |-> arrs[j - m.nb + 1].dtype, data |-> arrs[j - m.nb + 1].data]])
     EXCEPT !.nb = m.nb + Len(arrs)]

\* Assignment through an index tuple gone wrong: every element becomes v
SetTupleAll(m, n, ix, v) ==
  [m EXCEPT !.heap[m.env[n].buf].data = [p \in 1..Len(m.heap[m.env[n].buf].data) |-> v]]

\* n[ix] = v for a tuple ix of index arrays: every indexed element becomes v
SetTuple(m, n, ix, v) ==
  LET e == m.env[n]
      old == m.heap[e.buf].data
  IN  [m EXCEPT !.heap[e.buf].data =
         [p \in 1..Len(old) |->
            IF \E q \in 1..Len(ix[1].data) : TuplePos(e.shape, ix, q) = p THEN v ELSE old[p]]]

PrintVar(m, n) == Stmt(m, {n}, "none", Emit(m, "print", <<ValOf(m, n)>>))

PrintShape(m, n) == Stmt(m, {n}, "none", Emit(m, "print", <<m.env[n].shape>>))

PrintItem(m, n, sel) ==
  Stmt(m, {n}, IndexError(ValOf(m, n), sel), Emit(m, "print", <<GetItem(ValOf(m, n), sel)>>))

PrintExpr(m, reads, v) == Stmt(m, reads, "none", Emit(m, "print", <<v>>))


----------------------------------------------------------------------------
\* The code cells, in notebook order.

Cell1 ==
  LET Code(s, m) ==
       CASE s = 1 -> m                                        \* %matplotlib inline
         [] s = 2 -> Stmt(m, {}, "none", Bind(m, "np", Module("numpy"), m.heap))
         [] s = 3 -> Stmt(m, {}, "none", Bind(m, "plt", Module("matplotlib.pyplot"), m.heap))
  IN  pc = 1 /\ Exec(3, Code(st, Enter(st, k)), Code(st, EnterFresh(st, f)))

Cell2 ==
  LET Code(s, m) ==
       CASE s = 1 -> Stmt(m, {"np"}, "none", BindNew(m, "a", ArrayOf(<<0, 1, 2, 3, 4, 5, 6, 7, 8>>)))
         [] s = 2 -> PrintVar(m, "a")
  IN  pc = 2 /\ Exec(2, Code(st, Enter(st, k)), Code(st, EnterFresh(st, f)))

Cell3 ==
  LET Code(s, m) ==
       CASE s = 1 -> Stmt(m, {"np"}, "none", BindNew(m, "a", Arange(0, 9)))
         [] s = 2 -> PrintVar(m, "a")
  IN  pc = 3 /\ Exec(2, Code(st, Enter(st, k)), Code(st, EnterFresh(st, f)))

Cell4 ==
  LET Code(s, m) ==
       PrintShape(m, "a")
  IN  pc = 4 /\ Exec(1, Code(st, Enter(st, k)), Code(st, EnterFresh(st, f)))

Cell5 ==
  LET Code(s, m) ==
       PrintItem(m, "a", <<At(0)>>)
  IN  pc = 5 /\ Exec(1, Code(st, Enter(st, k)), Code(st, EnterFresh(st, f)))

Cell6 ==
  LET Code(s, m) ==
       PrintItem(m, "a", <<At(1)>>)
  IN  pc = 6 /\ Exec(1, Code(st, Enter(st, k)), Code(st, EnterFresh(st, f)))

Cell7 ==
  LET Code(s, m) ==
       PrintItem(m, "a", <<At(-1)>>)
  IN  pc = 7 /\ Exec(1, Code(st, Enter(st, k)), Code(st, EnterFresh(st, f)))

Cell8 ==
  LET Code(s, m) ==
       PrintItem(m, "a", <<At(-2)>>)
  IN  pc = 8 /\ Exec(1, Code(st, Enter(st, k)), Code(st, EnterFresh(st, f)))

Cell9 ==
  LET Code(s, m) ==
       CASE s = 1 -> Stmt(m, {"a"}, IndexError(ValOf(m, "a"), <<At(5)>>),
                          SetItem(m, "a", <<At(5)>>, CastInt(1000, DtypeOf(m, "a"))))
         [] s = 2 -> PrintVar(m, "a")
  IN  pc = 9 /\ Exec(2, Code(st, Enter(st, k)), Code(st, EnterFresh(st, f)))

Cell10 ==
  LET Code(s, m) ==
       CASE s = 1 -> Stmt(m, {"np"}, ReshapeError(Arange(0, 9), <<3, 3>>),
                          BindNew(m, "b", Reshape(Arange(0, 9), <<3, 3>>)))
         [] s = 2 -> PrintVar(m, "b")
  IN  pc = 10 /\ Exec(2, Code(st, Enter(st, k)), Code(st, EnterFresh(st, f)))

Cell11 ==
  LET Code(s, m) ==
       PrintShape(m, "b")
  IN  pc = 11 /\ Exec(1, Code(st, Enter(st, k)), Code(st, EnterFresh(st, f)))

Cell12 ==
  LET Code(s, m) ==
       CASE s = 1 -> Stmt(m, {"plt", "b"}, "none", Emit(m, "imshow", <<ValOf(m, "b")>>))
         [] s = 2 -> Stmt(m, {"plt"}, "none", Emit(m, "colorbar", << >>))
  IN  pc = 12 /\ Exec(2, Code(st, Enter(st, k)), Code(st, EnterFresh(st, f)))

Cell13 ==
  LET Code(s, m) ==
       PrintExpr(m, {"b"}, Transpose(ValOf(m, "b")))
  IN  pc = 13 /\ Exec(1, Code(st, Enter(st, k)), Code(st, EnterFresh(st, f)))

Cell14 ==
  LET Code(s, m) ==
       CASE s = 1 -> Stmt(m, {"np"}, ReshapeError(Arange(0, 27), <<3, 3, 3>>),
                          BindNew(m, "a", Reshape(Arange(0, 27), <<3, 3, 3>>)))
         [] s = 2 -> PrintVar(m, "a")
  IN  pc = 14 /\ Exec(2, Code(st, Enter(st, k)), Code(st, EnterFresh(st, f)))

Cell15 ==
  LET Code(s, m) ==
       PrintShape(m, "a")
  IN  pc = 15 /\ Exec(1, Code(st, Enter(st, k)), Code(st, EnterFresh(st, f)))

Cell16 ==
  LET Code(s, m) ==
       PrintItem(m, "a", <<At(0), At(0), At(0)>>)
  IN  pc = 16 /\ Exec(1, Code(st, Enter(st, k)), Code(st, EnterFresh(st, f)))

Cell17 ==
  LET Code(s, m) ==
       PrintItem(m, "a", <<At(1), At(2), At(2)>>)
  IN  pc = 17 /\ Exec(1, Code(st, Enter(st, k)), Code(st, EnterFresh(st, f)))

Cell18 ==
  LET Code(s, m) ==
       PrintItem(m, "a", <<At(-1), At(-1), At(-1)>>)
  IN  pc = 18 /\ Exec(1, Code(st, Enter(st, k)), Code(st, EnterFresh(st, f)))

Cell19 ==
  LET Code(s, m) ==
       PrintItem(m, "a", <<At(0), Slice(1), Slice(1)>>)
  IN  pc = 19 /\ Exec(1, Code(st, Enter(st, k)), Code(st, EnterFresh(st, f)))

Cell20 ==
  LET Code(s, m) ==
       PrintItem(m, "a", <<At(0)>>)
  IN  pc = 20 /\ Exec(1, Code(st, Enter(st, k)), Code(st, EnterFresh(st, f)))

Cell21 ==
  LET Code(s, m) ==
       PrintItem(m, "a", <<At(1)>>)
  IN  pc = 21 /\ Exec(1, Code(st, Enter(st, k)), Code(st, EnterFresh(st, f)))

Cell22 ==
  LET Code(s, m) ==
       PrintItem(m, "a", <<At(-1)>>)
  IN  pc = 22 /\ Exec(1, Code(st, Enter(st, k)), Code(st, EnterFresh(st, f)))

Cell23 ==
  LET Code(s, m) ==
       PrintItem(m, "a", <<Slice(1), At(0), Slice(1)>>)
  IN  pc = 23 /\ Exec(1, Code(st, Enter(st, k)), Code(st, EnterFresh(st, f)))

Cell24 ==
  LET Code(s, m) ==
       PrintItem(m, "a", <<Slice(1), Slice(1), At(0)>>)
  IN  pc = 24 /\ Exec(1, Code(st, Enter(st, k)), Code(st, EnterFresh(st, f)))

Cell25 ==
  LET Code(s, m) ==
       CASE s = 1 -> Stmt(m, {"np"}, "none", BindNew(m, "a", Arange(0, 100)))
         [] s = 2 -> PrintVar(m, "a")
  IN  pc = 25 /\ Exec(2, Code(st, Enter(st, k)), Code(st, EnterFresh(st, f)))

Cell26 ==
  LET Code(s, m) ==
       PrintShape(m, "a")
  IN  pc = 26 /\ Exec(1, Code(st, Enter(st, k)), Code(st, EnterFresh(st, f)))

Cell27 ==
  LET Code(s, m) ==
       Stmt(m, {"a"}, TakeError(ValOf(m, "a"), <<0, 10, 20, 55>>),
            Emit(m, "print", <<Take(ValOf(m, "a"), <<0, 10, 20, 55>>)>>))
  IN  pc = 27 /\ Exec(1, Code(st, Enter(st, k)), Code(st, EnterFresh(st, f)))

Cell28 ==
  LET Code(s, m) ==
       PrintItem(m, "a", <<Slice(5)>>)
  IN  pc = 28 /\ Exec(1, Code(st, Enter(st, k)), Code(st, EnterFresh(st, f)))

Cell29 ==
  LET Code(s, m) ==
       CASE s = 1 -> Stmt(m, {"a"}, ReshapeError(ValOf(m, "a"), <<10, 10>>),
                          BindView(m, "b", "a", Reshape(ValOf(m, "a"), <<10, 10>>).shape))
         [] s = 2 -> PrintVar(m, "b")
  IN  pc = 29 /\ Exec(2, Code(st, Enter(st, k)), Code(st, EnterFresh(st, f)))

Cell30 ==
  LET Code(s, m) ==
       PrintItem(m, "b", <<Slice(2), Slice(1)>>)
  IN  pc = 30 /\ Exec(1, Code(st, Enter(st, k)), Code(st, EnterFresh(st, f)))

Cell31 ==
  LET Code(s, m) ==
       PrintItem(m, "b", <<Slice(2)>>)
  IN  pc = 31 /\ Exec(1, Code(st, Enter(st, k)), Code(st, EnterFresh(st, f)))

Cell32 ==
  LET Code(s, m) ==
       PrintItem(m, "b", <<Slice(1), Slice(2)>>)
  IN  pc = 32 /\ Exec(1, Code(st, Enter(st, k)), Code(st, EnterFresh(st, f)))

Cell33 ==
  LET Code(s, m) ==
       PrintItem(m, "b", <<Slice(-2)>>)
  IN  pc = 33 /\ Exec(1, Code(st, Enter(st, k)), Code(st, EnterFresh(st, f)))

Cell34 ==
  LET Code(s, m) ==
       PrintExpr(m, {"b"}, Cmp(ValOf(m, "b"), "==", 0))
  IN  pc = 34 /\ Exec(1, Code(st, Enter(st, k)), Code(st, EnterFresh(st, f)))

Cell35 ==
  LET Code(s, m) ==
       PrintExpr(m, {"b"}, Cmp(ValOf(m, "b"), ">", 25))
  IN  pc = 35 /\ Exec(1, Code(st, Enter(st, k)), Code(st, EnterFresh(st, f)))

Cell36 ==
  LET Code(s, m) ==
       PrintExpr(m, {"b"}, And(Cmp(ValOf(m, "b"), ">", 10), Cmp(ValOf(m, "b"), "<=", 75)))
  IN  pc = 36 /\ Exec(1, Code(st, Enter(st, k)), Code(st, EnterFresh(st, f)))

Cell37 ==
  LET Code(s, m) ==
       PrintExpr(m, {"b"}, Or(And(Cmp(ValOf(m, "b"), ">", 10), Cmp(ValOf(m, "b"), "<", 75)), Cmp(ValOf(m, "b"), "==", 99)))
  IN  pc = 37 /\ Exec(1, Code(st, Enter(st, k)), Code(st, EnterFresh(st, f)))

Cell38 ==
  LET Code(s, m) ==
       CASE s = 1 -> Stmt(m, {"b"}, "none", BindNew(m, "mask", Cmp(ValOf(m, "b"), ">", 50)))
         [] s = 2 -> Stmt(m, {"plt", "mask"}, "none", Emit(m, "imshow", <<ValOf(m, "mask")>>))
         [] s = 3 -> Stmt(m, {"plt"}, "none", Emit(m, "colorbar", << >>))
  IN  pc = 38 /\ Exec(3, Code(st, Enter(st, k)), Code(st, EnterFresh(st, f)))

Cell39 ==
  LET Code(s, m) ==
       CASE s = 1 -> Stmt(m, {"np", "b"}, "none", BindTuple(m, "idx", Where(Cmp(ValOf(m, "b"), "==", 5))))
         [] s = 2 -> PrintExpr(m, {"idx"}, TupleOf(m, "idx"))
  IN  pc = 39 /\ Exec(2, Code(st, Enter(st, k)), Code(st, EnterFresh(st, f)))

Cell40 ==
  LET Code(s, m) ==
       CASE s = 1 -> Stmt(m, {"np", "b"}, "none", BindTuple(m, "idx", Where(Cmp(ValOf(m, "b"), ">", 10))))
         [] s = 2 -> PrintExpr(m, {"idx"}, TupleOf(m, "idx"))
  IN  pc = 40 /\ Exec(2, Code(st, Enter(st, k)), Code(st, EnterFresh(st, f)))

Cell41 ==
  LET Code(s, m) ==
       Stmt(m, {"b", "idx"}, TupleError(ValOf(m, "b"), TupleOf(m, "idx")),
            Emit(m, "print", <<TupleItem(ValOf(m, "b"), TupleOf(m, "idx"))>>))
  IN  pc = 41 /\ Exec(1, Code(st, Enter(st, k)), Code(st, EnterFresh(st, f)))

Cell42 ==
  LET Code(s, m) ==
       CASE s = 1 -> Stmt(m, {"np", "b"}, "none",
                          BindTuple(m, "idx", Where(And(Cmp(ValOf(m, "b"), ">", 10), Cmp(ValOf(m, "b"), "<=", 60)))))
         [] s = 2 -> Stmt(m, {"b", "idx"}, TupleError(ValOf(m, "b"), TupleOf(m, "idx")),
                          Emit(m, "print", <<TupleItem(ValOf(m, "b"), TupleOf(m, "idx"))>>))
  IN  pc = 42 /\ Exec(2, Code(st, Enter(st, k)), Code(st, EnterFresh(st, f)))

Cell43 ==
  LET Code(s, m) ==
       CASE s = 1 -> Stmt(m, {"np"}, "none", BindNew(m, "a", Arange(0, 9)))
         [] s = 2 -> Stmt(m, {"np"}, "none", BindNew(m, "b", Arange(10, 19)))
         [] s = 3 -> Stmt(m, {"a", "b"}, "none", Emit(m, "print", <<ValOf(m, "a"), ValOf(m, "b")>>))
  IN  pc = 43 /\ Exec(3, Code(st, Enter(st, k)), Code(st, EnterFresh(st, f)))

Cell44 ==
  LET Code(s, m) ==
       CASE s = 1 -> Stmt(m, {"a", "b"}, ShapeError(ValOf(m, "a"), ValOf(m, "b")),
                          BindNew(m, "x", Add(ValOf(m, "a"), ValOf(m, "b"))))
         [] s = 2 -> PrintVar(m, "x")
  IN  pc = 44 /\ Exec(2, Code(st, Enter(st, k)), Code(st, EnterFresh(st, f)))

\* x = np.zeros(a.shape, dtype = np.uint8); for i in range(9): x[i] = a[i] + b[i]; print(x)
\* it is the next value of the range iterator.
Cell45 ==
  LET Code(s, it, m) ==
       CASE s = 1 -> Stmt(m, {"np", "a"}, "none", BindNew(m, "x", Zeros(m.env["a"].shape, "uint8")))
         [] s = 2 -> IF it < 9
                     THEN Stmt(m, {}, "none", Bind(m, "i", [kind |-> "int", val |-> it], m.heap))
                     ELSE m
         [] s = 3 -> Stmt(m, {"x", "a", "b", "i"},
                          IF IndexError(ValOf(m, "a"), <<At(m.env["i"].val)>>) # "none"
                             \/ IndexError(ValOf(m, "b"), <<At(m.env["i"].val)>>) # "none"
                             \/ IndexError(ValOf(m, "x"), <<At(m.env["i"].val)>>) # "none"
                          THEN "IndexError" ELSE "none",
                          SetItem(m, "x", <<At(m.env["i"].val)>>,
                                  CastInt(GetItem(ValOf(m, "a"), <<At(m.env["i"].val)>>).data[1]
                                          + GetItem(ValOf(m, "b"), <<At(m.env["i"].val)>>).data[1],
                                          DtypeOf(m, "x"))))
         [] s = 4 -> PrintVar(m, "x")
  IN  /\ pc = 45
      /\ k' = Code(st, iter, Enter(st, k))
      /\ f' = Code(st, iter, EnterFresh(st, f))
      /\ IF k'.err # "none" THEN pc' = 46 /\ st' = 1 /\ iter' = iter
         ELSE CASE st = 1 -> pc' = pc /\ st' = 2 /\ iter' = 0
                [] st = 2 -> /\ pc' = pc
                             /\ IF iter < 9 THEN st' = 3 /\ iter' = iter + 1
                                            ELSE st' = 4 /\ iter' = iter
                [] st = 3 -> pc' = pc /\ st' = 2 /\ iter' = iter
                [] st = 4 -> pc' = 46 /\ st' = 1 /\ iter' = iter

Cell46 ==
  LET Code(s, m) ==
       CASE s = 1 -> Stmt(m, {"a", "b"}, ShapeError(ValOf(m, "a"), ValOf(m, "b")),
                          BindNew(m, "y", Mul(ValOf(m, "a"), ValOf(m, "b"))))
         [] s = 2 -> PrintVar(m, "y")
  IN  pc = 46 /\ Exec(2, Code(st, Enter(st, k)), Code(st, EnterFresh(st, f)))

Cell47 ==
  LET Code(s, m) ==
       CASE s = 1 -> Stmt(m, {"a", "b"}, ShapeError(ValOf(m, "b"), ValOf(m, "a")),
                          DivWarn(BindNew(m, "z", Div(ValOf(m, "b"), ValOf(m, "a"))), ValOf(m, "a")))
         [] s = 2 -> PrintVar(m, "z")
  IN  pc = 47 /\ Exec(2, Code(st, Enter(st, k)), Code(st, EnterFresh(st, f)))

Cell48 ==
  LET Code(s, m) ==
       PrintExpr(m, {"np", "z"}, IsInf(ValOf(m, "z")))
  IN  pc = 48 /\ Exec(1, Code(st, Enter(st, k)), Code(st, EnterFresh(st, f)))

Cell49 ==
  LET Code(s, m) ==
       CASE s = 1 -> Stmt(m, {"np", "z"}, "none", BindTuple(m, "idx", Where(IsInf(ValOf(m, "z")))))
         [] s = 2 -> PrintExpr(m, {"idx"}, TupleOf(m, "idx"))
  IN  pc = 49 /\ Exec(2, Code(st, Enter(st, k)), Code(st, EnterFresh(st, f)))

Cell50 ==
  LET Code(s, m) ==
       Stmt(m, {"z", "idx"}, TupleError(ValOf(m, "z"), TupleOf(m, "idx")),
            Emit(m, "print", <<TupleItem(ValOf(m, "z"), TupleOf(m, "idx"))>>))
  IN  pc = 50 /\ Exec(1, Code(st, Enter(st, k)), Code(st, EnterFresh(st, f)))

Cell51 ==
  LET Code(s, m) ==
       CASE s = 1 -> Stmt(m, {"z", "idx"}, TupleError(ValOf(m, "z"), TupleOf(m, "idx")),
                          SetTuple(m, "z", TupleOf(m, "idx"), CastInt(0, DtypeOf(m, "z"))))
         [] s = 2 -> PrintVar(m, "z")
  IN  pc = 51 /\ Exec(2, Code(st, Enter(st, k)), Code(st, EnterFresh(st, f)))

Cell52 ==
  LET Code(s, m) ==
       CASE s = 1 -> Stmt(m, {"np"}, ReshapeError(Arange(0, 9), <<3, 3>>),
                          BindNew(m, "a", Reshape(Arange(0, 9), <<3, 3>>)))
         [] s = 2 -> Stmt(m, {"a"}, "none", BindNew(m, "b", PowBy(ValOf(m, "a"), 2)))
         [] s = 3 -> PrintVar(m, "b")
  IN  pc = 52 /\ Exec(3, Code(st, Enter(st, k)), Code(st, EnterFresh(st, f)))

Cell53 ==
  LET Code(s, m) ==
       PrintExpr(m, {"np", "b"}, Apply("sqrt", ValOf(m, "b")))
  IN  pc = 53 /\ Exec(1, Code(st, Enter(st, k)), Code(st, EnterFresh(st, f)))

Cell54 ==
  LET Code(s, m) ==
       CASE s = 1 -> Stmt(m, {"np"}, ReshapeError(Arange(0, 9), <<3, 3>>),
                          BindNew(m, "a", Reshape(Arange(0, 9), <<3, 3>>)))
         [] s = 2 -> Stmt(m, {"np"}, ReshapeError(Arange(0, 9), <<3, 3>>),
                          BindNew(m, "b", Reshape(Arange(0, 9), <<3, 3>>)))
         [] s = 3 -> Stmt(m, {"a", "b"}, ShapeError(ValOf(m, "a"), ValOf(m, "b")),
                          BindNew(m, "x", Pow(ValOf(m, "a"), ValOf(m, "b"))))
         [] s = 4 -> PrintVar(m, "x")
  IN  pc = 54 /\ Exec(4, Code(st, Enter(st, k)), Code(st, EnterFresh(st, f)))

Cell55 ==
  LET Code(s, m) ==
       CASE s = 1 -> Stmt(m, {"np", "x"}, "none", BindNew(m, "y", Apply("log", ValOf(m, "x"))))
         [] s = 2 -> PrintVar(m, "y")
  IN  pc = 55 /\ Exec(2, Code(st, Enter(st, k)), Code(st, EnterFresh(st, f)))

Cell56 ==
  LET Code(s, m) ==
       CASE s = 1 -> Stmt(m, {"np", "x"}, "none", BindNew(m, "z", Apply("log10", ValOf(m, "x"))))
         [] s = 2 -> PrintVar(m, "z")
  IN  pc = 56 /\ Exec(2, Code(st, Enter(st, k)), Code(st, EnterFresh(st, f)))

Cell57 ==
  LET Code(s, m) ==
       CASE s = 1 -> Stmt(m, {"np"}, "none", BindNew(m, "a", Arange(0, 360)))
         [] s = 2 -> PrintVar(m, "a")
  IN  pc = 57 /\ Exec(2, Code(st, Enter(st, k)), Code(st, EnterFresh(st, f)))

Cell58 ==
  LET Code(s, m) ==
       PrintExpr(m, {"np"}, Scalar("float", TimesPi(1)))
  IN  pc = 58 /\ Exec(1, Code(st, Enter(st, k)), Code(st, EnterFresh(st, f)))

Cell59 ==
  LET Code(s, m) ==
       CASE s = 1 -> Stmt(m, {"a", "np"}, "none",
                          BindNew(m, "theta", FloatDivBy(MulPi(MulBy(ValOf(m, "a"), 2)), 360)))
         [] s = 2 -> Stmt(m, {"np", "theta"}, "none", BindNew(m, "sintheta", Apply("sin", ValOf(m, "theta"))))
         [] s = 3 -> Stmt(m, {"plt", "theta", "sintheta"}, ShapeError(ValOf(m, "theta"), ValOf(m, "sintheta")),
                          Emit(m, "plot", <<ValOf(m, "theta"), ValOf(m, "sintheta")>>))
         [] s = 4 -> Stmt(m, {"plt"}, "none", Emit(m, "xlabel", <<"$\\theta$">>))
         [] s = 5 -> Stmt(m, {"plt"}, "none", Emit(m, "ylabel", <<"$sin(\\theta)$">>))
  IN  pc = 59 /\ Exec(5, Code(st, Enter(st, k)), Code(st, EnterFresh(st, f)))

Cell60 ==
  LET Code(s, m) ==
       CASE s = 1 -> Stmt(m, {"np"}, ReshapeError(Arange(0, 1000), <<10, 10, 10>>),
                          BindNew(m, "a", Reshape(Arange(0, 1000), <<10, 10, 10>>)))
         [] s = 2 -> PrintVar(m, "a")
  IN  pc = 60 /\ Exec(2, Code(st, Enter(st, k)), Code(st, EnterFresh(st, f)))

Cell61 ==
  LET Code(s, m) ==
       PrintExpr(m, {"a"}, SumAll(ValOf(m, "a")))
  IN  pc = 61 /\ Exec(1, Code(st, Enter(st, k)), Code(st, EnterFresh(st, f)))

Cell62 ==
  LET Code(s, m) ==
       PrintExpr(m, {"a"}, MaxAll(ValOf(m, "a")))
  IN  pc = 62 /\ Exec(1, Code(st, Enter(st, k)), Code(st, EnterFresh(st, f)))

Cell63 ==
  LET Code(s, m) ==
       PrintExpr(m, {"a"}, MeanAll(ValOf(m, "a")))
  IN  pc = 63 /\ Exec(1, Code(st, Enter(st, k)), Code(st, EnterFresh(st, f)))

Cell64 ==
  LET Code(s, m) ==
       PrintExpr(m, {"a"}, MeanAxis(ValOf(m, "a"), 1))
  IN  pc = 64 /\ Exec(1, Code(st, Enter(st, k)), Code(st, EnterFresh(st, f)))

Cell65 ==
  LET Code(s, m) ==
       CASE s = 1 -> Stmt(m, {"plt", "a"}, "none", Emit(m, "imshow", <<MeanAxis(ValOf(m, "a"), 1)>>))
         [] s = 2 -> Stmt(m, {"plt"}, "none", Emit(m, "colorbar", << >>))
  IN  pc = 65 /\ Exec(2, Code(st, Enter(st, k)), Code(st, EnterFresh(st, f)))

Cell66 ==
  LET Code(s, m) ==
       CASE s = 1 -> Stmt(m, {"np"}, "none", BindNew(m, "a", Zeros(<<100, 100>>, "uint8")))
         [] s = 2 -> PrintExpr(m, {"a"}, DtypeOf(m, "a"))
  IN  pc = 66 /\ Exec(2, Code(st, Enter(st, k)), Code(st, EnterFresh(st, f)))

Cell67 ==
  LET Code(s, m) ==
       CASE s = 1 -> Stmt(m, {"np"}, "none", BindNew(m, "b", Zeros(<<100, 100>>, "float64")))
         [] s = 2 -> PrintExpr(m, {"b"}, DtypeOf(m, "b"))
  IN  pc = 67 /\ Exec(2, Code(st, Enter(st, k)), Code(st, EnterFresh(st, f)))

Cell68 ==
  LET Code(s, m) ==
       PrintVar(m, "a")
  IN  pc = 68 /\ Exec(1, Code(st, Enter(st, k)), Code(st, EnterFresh(st, f)))

Cell69 ==
  LET Code(s, m) ==
       PrintVar(m, "b")
  IN  pc = 69 /\ Exec(1, Code(st, Enter(st, k)), Code(st, EnterFresh(st, f)))

Cell70 ==
  LET Code(s, m) ==
       CASE s = 1 -> Stmt(m, {"b", "np"}, "none", BindNew(m, "b", Astype(ValOf(m, "b"), "uint8")))
         [] s = 2 -> PrintExpr(m, {"b"}, DtypeOf(m, "b"))
  IN  pc = 70 /\ Exec(2, Code(st, Enter(st, k)), Code(st, EnterFresh(st, f)))

Cell71 ==
  LET Code(s, m) ==
       CASE s = 1 -> Stmt(m, {"np"}, "none", BindNew(m, "a", Arange(0, 9)))
         [] s = 2 -> Stmt(m, {"a"}, "none", Emit(m, "print", <<"Assumed datatype: ", DtypeOf(m, "a")>>))
         [] s = 3 -> Stmt(m, {"a", "np"}, "none", BindNew(m, "a", Astype(ValOf(m, "a"), "uint8")))
         [] s = 4 -> Stmt(m, {"a"}, "none", Emit(m, "print", <<"New datatype: ", DtypeOf(m, "a")>>))
  IN  pc = 71 /\ Exec(4, Code(st, Enter(st, k)), Code(st, EnterFresh(st, f)))

Cell72 ==
  LET Code(s, m) ==
       CASE s = 1 -> Stmt(m, {"a"}, "none", BindNew(m, "b", DivBy(ValOf(m, "a"), 2)))
         [] s = 2 -> PrintVar(m, "b")
  IN  pc = 72 /\ Exec(2, Code(st, Enter(st, k)), Code(st, EnterFresh(st, f)))

Cell73 ==
  LET Code(s, m) ==
       PrintExpr(m, {"b"}, DtypeOf(m, "b"))
  IN  pc = 73 /\ Exec(1, Code(st, Enter(st, k)), Code(st, EnterFresh(st, f)))

Cell74 ==
  LET Code(s, m) ==
       CASE s = 1 -> Stmt(m, {"np"}, "none", BindNew(m, "a", Zeros(<<3, 3>>, "complex64")))
         [] s = 2 -> PrintVar(m, "a")
  IN  pc = 74 /\ Exec(2, Code(st, Enter(st, k)), Code(st, EnterFresh(st, f)))

Cell75 ==
  LET Code(s, m) ==
       CASE s = 1 -> Stmt(m, {"a"}, IndexError(ValOf(m, "a"), <<At(0), At(0)>>),
                          SetItem(m, "a", <<At(0), At(0)>>, Cplx(5, 2)))
         [] s = 2 -> Stmt(m, {"a"}, IndexError(ValOf(m, "a"), <<At(0), At(1)>>),
                          SetItem(m, "a", <<At(0), At(1)>>, Cplx(2, 3)))
         [] s = 3 -> Stmt(m, {"a"}, IndexError(ValOf(m, "a"), <<At(-1), At(-1)>>),
                          SetItem(m, "a", <<At(-1), At(-1)>>, Cplx(1, -1)))
         [] s = 4 -> PrintVar(m, "a")
  IN  pc = 75 /\ Exec(4, Code(st, Enter(st, k)), Code(st, EnterFresh(st, f)))

Cell76 ==
  LET Code(s, m) ==
       PrintExpr(m, {"a"}, Real(ValOf(m, "a")))
  IN  pc = 76 /\ Exec(1, Code(st, Enter(st, k)), Code(st, EnterFresh(st, f)))

Cell77 ==
  LET Code(s, m) ==
       PrintExpr(m, {"a"}, Imag(ValOf(m, "a")))
  IN  pc = 77 /\ Exec(1, Code(st, Enter(st, k)), Code(st, EnterFresh(st, f)))

Cell78 ==
  LET Code(s, m) ==
       CASE s = 1 -> Stmt(m, {"a"}, "none", Emit(m, "print", <<"max = ", CMaxAll(ValOf(m, "a"))>>))
         [] s = 2 -> Stmt(m, {"a"}, "none", Emit(m, "print", <<"min = ", CMinAll(ValOf(m, "a"))>>))
  IN  pc = 78 /\ Exec(2, Code(st, Enter(st, k)), Code(st, EnterFresh(st, f)))

Cell79 ==
  LET Code(s, m) ==
       PrintExpr(m, {"a"}, CSumAll(ValOf(m, "a")))
  IN  pc = 79 /\ Exec(1, Code(st, Enter(st, k)), Code(st, EnterFresh(st, f)))

Cell80 ==
  LET Code(s, m) ==
       PrintExpr(m, {"a"}, CSumAxis(ValOf(m, "a"), 1))
  IN  pc = 80 /\ Exec(1, Code(st, Enter(st, k)), Code(st, EnterFresh(st, f)))

Cell81 ==
  LET Code(s, m) ==
       PrintExpr(m, {"a"}, CSumAxis(ValOf(m, "a"), 2))
  IN  pc = 81 /\ Exec(1, Code(st, Enter(st, k)), Code(st, EnterFresh(st, f)))

Init ==
  /\ pc = 1
  /\ st = 1
  /\ iter = 0
  /\ k = EmptyMachine
  /\ f = EmptyMachine

Next ==
  \/ Cell1
  \/ Cell2
  \/ Cell3
  \/ Cell4
  \/ Cell5
  \/ Cell6
  \/ Cell7
  \/ Cell8
  \/ Cell9
  \/ Cell10
  \/ Cell11
  \/ Cell12
  \/ Cell13
  \/ Cell14
  \/ Cell15
  \/ Cell16
  \/ Cell17
  \/ Cell18
  \/ Cell19
  \/ Cell20
  \/ Cell21
  \/ Cell22
  \/ Cell23
  \/ Cell24
  \/ Cell25
  \/ Cell26
  \/ Cell27
  \/ Cell28
  \/ Cell29
  \/ Cell30
  \/ Cell31
  \/ Cell32
  \/ Cell33
  \/ Cell34
  \/ Cell35
  \/ Cell36
  \/ Cell37
  \/ Cell38
  \/ Cell39
  \/ Cell40
  \/ Cell41
  \/ Cell42
  \/ Cell43
  \/ Cell44
  \/ Cell45
  \/ Cell46
  \/ Cell47
  \/ Cell48
  \/ Cell49
  \/ Cell50
  \/ Cell51
  \/ Cell52
  \/ Cell53
  \/ Cell54
  \/ Cell55
  \/ Cell56
  \/ Cell57
  \/ Cell58
  \/ Cell59
  \/ Cell60
  \/ Cell61
  \/ Cell62
  \/ Cell63
  \/ Cell64
  \/ Cell65
  \/ Cell66
  \/ Cell67
  \/ Cell68
  \/ Cell69
  \/ Cell70
  \/ Cell71
  \/ Cell72
  \/ Cell73
  \/ Cell74
  \/ Cell75
  \/ Cell76
  \/ Cell77
  \/ Cell78
  \/ Cell79
  \/ Cell80
  \/ Cell81

Spec == Init /\ [][Next]_vars

----------------------------------------------------------------------------
\* Where the reader is: statement s of cell c has just run and the cell goes
\* on; cell c has just been left.

AfterStmt(c, s) == pc = c /\ st = s + 1

Done(c) == pc = c + 1 /\ st = 1

\* a[i, j, ...] for indices that name every axis
Elem(a, ix) == GetItem(a, [j \in 1..Len(ix) |-> At(ix[j])]).data[1]

\* The first value the kernel's current cell has printed
Printed == k.out[1].val[1]

\* C1: a reshape keeps the element count and the row-major order.  After each
\* of arange(9) -> (3,3), arange(27) -> (3,3,3), a = arange(100) -> (10,10)
\* and arange(1000) -> (10,10,10) the result has as many elements as the 1-D
\* source, and the element at (i, j[, k]) is the source's element at the
\* row-major flat position (b[i,j] = a[10*i + j] in the 10 X 10 case).
C1_ReshapeKeepsCountAndOrder ==
  /\ AfterStmt(10, 1) =>
       LET b == ValOf(k, "b")
       IN  /\ b.shape = <<3, 3>>
           /\ Len(b.data) = Len(Arange(0, 9).data)
           /\ \A i, j \in 0..2 : Elem(b, <<i, j>>) = Elem(Arange(0, 9), <<3 * i + j>>)
  /\ AfterStmt(14, 1) =>
       LET a == ValOf(k, "a")
       IN  /\ a.shape = <<3, 3, 3>>
           /\ Len(a.data) = Len(Arange(0, 27).data)
           /\ \A i, j, l \in 0..2 :
                Elem(a, <<i, j, l>>) = Elem(Arange(0, 27), <<9 * i + 3 * j + l>>)
  /\ AfterStmt(29, 1) =>
       LET a == ValOf(k, "a")
           b == ValOf(k, "b")
       IN  /\ a.shape = <<100>>
           /\ b.shape = <<10, 10>>
           /\ Len(b.data) = Len(a.data)
           /\ \A i, j \in 0..9 : Elem(b, <<i, j>>) = Elem(a, <<10 * i + j>>)
  /\ AfterStmt(60, 1) =>
       LET a == ValOf(k, "a")
       IN  /\ a.shape = <<10, 10, 10>>
           /\ Len(a.data) = Len(Arange(0, 1000).data)
           /\ \A i, j, l \in 0..9 :
                Elem(a, <<i, j, l>>) = Elem(Arange(0, 1000), <<100 * i + 10 * j + l>>)

\* The 10 X 10 and the 10 X 10 X 10 reshapes have both been made.
C1_Witness ==
  /\ AfterStmt(60, 1)
  /\ k.err = "none"
  /\ k.env["a"].shape = <<10, 10, 10>>
  /\ k.env["b"].kind = "ndarray"

\* C2: a comparison yields a mask of its operand's shape.  For the 10 X 10
\* array b, each of b == 0, b > 25, (b > 10) & (b <= 75) and b > 50 is a
\* 10 X 10 array of booleans whose element [i,j] is True exactly when b[i,j]
\* satisfies the condition.
C2_MaskHasOperandShape ==
  LET b == ValOf(k, "b")
  IN  /\ Done(34) =>
           /\ Printed.shape = b.shape /\ b.shape = <<10, 10>> /\ Printed.dtype = "bool"
           /\ \A i, j \in 0..9 : Elem(Printed, <<i, j>>) = (Elem(b, <<i, j>>) = 0)
      /\ Done(35) =>
           /\ Printed.shape = b.shape /\ b.shape = <<10, 10>> /\ Printed.dtype = "bool"
           /\ \A i, j \in 0..9 : Elem(Printed, <<i, j>>) = (Elem(b, <<i, j>>) > 25)
      /\ Done(36) =>
           /\ Printed.shape = b.shape /\ b.shape = <<10, 10>> /\ Printed.dtype = "bool"
           /\ \A i, j \in 0..9 :
                Elem(Printed, <<i, j>>) = (Elem(b, <<i, j>>) > 10 /\ Elem(b, <<i, j>>) <= 75)
      /\ AfterStmt(38, 1) =>
           LET mask == ValOf(k, "mask")
           IN  /\ mask.shape = b.shape /\ b.shape = <<10, 10>> /\ mask.dtype = "bool"
               /\ \A i, j \in 0..9 : Elem(mask, <<i, j>>) = (Elem(b, <<i, j>>) > 50)

\* mask = (b > 50) has been bound, with True and False elements in it.
C2_Witness ==
  /\ AfterStmt(38, 1)
  /\ k.err = "none"
  /\ k.env["mask"].kind = "ndarray"
  /\ Elem(ValOf(k, "mask"), <<5, 1>>)
  /\ ~Elem(ValOf(k, "mask"), <<5, 0>>)

\* C3: dividing an integer array promotes to floating point.  For a =
\* arange(9) recast to uint8, b = a / 2 has dtype float64 and b[i] is exactly
\* i/2 (0, 0.5, 1, 1.5, ..., 4), while a keeps dtype uint8 and its values.
C3_DivisionPromotesToFloat ==
  AfterStmt(72, 1) =>
    LET a == ValOf(k, "a")
        b == ValOf(k, "b")
    IN  /\ b.dtype = "float64"
        /\ b.shape = <<9>>
        /\ \A i \in 0..8 :
             LET v == Elem(b, <<i>>)
             IN  v.fn = "rat" /\ v.d \in {1, 2} /\ 2 * v.n = i * v.d
        /\ a.dtype = "uint8"
        /\ a.shape = <<9>>
        /\ \A i \in 0..8 : Elem(a, <<i>>) = i

\* b = a / 2 has run on the uint8 array and b[1] is the fraction 1/2.
C3_Witness ==
  /\ AfterStmt(72, 1)
  /\ k.err = "none"
  /\ DtypeOf(k, "a") = "uint8"
  /\ Elem(ValOf(k, "b"), <<1>>) = [fn |-> "rat", n |-> 1, d |-> 2]

\* C4 as the specification states it: every code cell is standalone; run from
\* an empty variable state it gives the output it gives after all the cells
\* before it.
C4_EveryCellStandalone ==
  (st = 1 /\ pc > 1) => (f.err = k.err /\ f.out = k.out)

\* C4, amended: only the first code cell (the imports) is standalone.  Every
\* other code cell reads a name bound by an earlier cell: after the cells
\* before it it runs without error and produces output, and run from an empty
\* variable state it stops with an undefined-name error and produces none.
C4_OnlyImportCellStandalone ==
  (st = 1 /\ pc > 1) =>
    IF pc = 2
    THEN f.err = "none" /\ k.err = "none" /\ f.out = k.out
    ELSE k.err = "none" /\ k.out # << >> /\ f.err = "NameError" /\ f.out = << >>

\* print(b[idx]) has run: after the cells before it it printed an array, from
\* an empty variable state it raised.
C4_Witness ==
  /\ Done(41)
  /\ k.err = "none"
  /\ Len(k.out) = 1
  /\ Printed.shape = <<89>>
  /\ f.err = "NameError"

\* C5: np.where(cond) on the 2-D b returns one index array per axis, both of
\* one length; the q-th pair (rows[q], cols[q]) is a position where cond is
\* True and every True position appears exactly once.  For b == 5 the result
\* is the single position [0,5]; for b > 10 the positions run from [1,1],
\* [1,2], [1,3] up to [9,9].
C5_WhereListsEveryTruePositionOnce ==
  /\ AfterStmt(39, 1) =>
       LET idx == TupleOf(k, "idx")
       IN  /\ Len(idx) = 2
           /\ idx[1].shape = <<1>> /\ idx[2].shape = <<1>>
           /\ idx[1].data = <<0>> /\ idx[2].data = <<5>>
           /\ Elem(ValOf(k, "b"), <<0, 5>>) = 5
  /\ AfterStmt(40, 1) =>
       LET idx  == TupleOf(k, "idx")
           b    == ValOf(k, "b")
           rows == idx[1].data
           cols == idx[2].data
           n    == Len(rows)
       IN  /\ Len(idx) = 2
           /\ idx[1].shape = <<n>> /\ idx[2].shape = <<n>> /\ Len(cols) = n
           /\ \A q \in 1..n : Elem(b, <<rows[q], cols[q]>>) > 10
           /\ \A i, j \in 0..9 :
                Cardinality({q \in 1..n : rows[q] = i /\ cols[q] = j})
                  = IF Elem(b, <<i, j>>) > 10 THEN 1 ELSE 0
           /\ <<rows[1], cols[1]>> = <<1, 1>>
           /\ <<rows[2], cols[2]>> = <<1, 2>>
           /\ <<rows[3], cols[3]>> = <<1, 3>>
           /\ <<rows[n], cols[n]>> = <<9, 9>>
           /\ \A q \in 1..(n - 1) : 10 * rows[q] + cols[q] < 10 * rows[q + 1] + cols[q + 1]

\* idx = np.where(b > 10) has run and holds 89 positions.
C5_Witness ==
  /\ AfterStmt(40, 1)
  /\ k.err = "none"
  /\ k.env["idx"].kind = "tuple"
  /\ k.env["idx"].items[1].shape = <<89>>

\* C6: indexing b with the result of np.where loses the shape: b[idx] is a
\* 1-D array with one value per position where the condition is True, each
\* value satisfying it; for idx = np.where((b > 10) & (b <= 60)) on the
\* 10 X 10 b, b[idx] is the 50 values 11..60.
C6_IndexByWhereIsOneDimensional ==
  /\ Done(41) =>
       LET b == ValOf(k, "b")
       IN  /\ Len(b.shape) = 2
           /\ Len(Printed.shape) = 1
           /\ Printed.shape[1] = Cardinality({p \in 1..Len(b.data) : b.data[p] > 10})
           /\ Len(Printed.data) = Printed.shape[1]
           /\ \A q \in 1..Len(Printed.data) : Printed.data[q] > 10
  /\ Done(42) =>
       /\ Printed.shape = <<50>>
       /\ Len(Printed.data) = 50
       /\ \A q \in 1..50 : Printed.data[q] = 10 + q

\* print(b[idx]) has run with idx = np.where((b > 10) & (b <= 60)).
C6_Witness ==
  /\ Done(42)
  /\ k.err = "none"
  /\ k.env["idx"].items[1].shape = <<50>>
  /\ k.env["b"].shape = <<10, 10>>
  /\ Len(k.out) = 1

\* C7: the vectorised sum and the loop agree.  For a = arange(9) and b =
\* arange(10, 19), x = a + b adds each element of a to the corresponding one
\* of b; the loop from np.zeros(a.shape, dtype = np.uint8) that sets x[i] =
\* a[i] + b[i] for i in range(9) ends with x[i] = (a + b)[i] for every i.
C7_LoopAgreesWithVectorisedSum ==
  /\ AfterStmt(44, 1) =>
       LET a == ValOf(k, "a")
           b == ValOf(k, "b")
           x == ValOf(k, "x")
       IN  /\ a = Arange(0, 9) /\ b = Arange(10, 19)
           /\ x.shape = a.shape
           /\ \A i \in 0..8 : Elem(x, <<i>>) = Elem(a, <<i>>) + Elem(b, <<i>>)
  /\ (pc = 45 /\ st = 4) =>
       LET a == ValOf(k, "a")
           b == ValOf(k, "b")
           x == ValOf(k, "x")
       IN  /\ iter = 9
           /\ x.dtype = "uint8"
           /\ x.shape = Add(a, b).shape
           /\ \A i \in 0..8 : Elem(x, <<i>>) = Elem(Add(a, b), <<i>>)

\* The loop has run its nine rounds and is left.
C7_Witness ==
  /\ pc = 45 /\ st = 4
  /\ iter = 9
  /\ k.err = "none"
  /\ k.env["i"] = [kind |-> "int", val |-> 8]
  /\ Elem(ValOf(k, "x"), <<8>>) = 26

\* C8: after z = b / a with a = arange(9) and b = arange(10, 19), the element
\* of z at index [0,0] is inf, np.isinf(z) is True at that element and False
\* at every other one, and np.where(np.isinf(z)) selects exactly that element.
C8_InfAtIndexZeroZero ==
  AfterStmt(47, 1) =>
    LET z == ValOf(k, "z")
    IN  /\ IndexError(z, <<At(0), At(0)>>) = "none"
        /\ IsInfVal(Elem(z, <<0, 0>>))
        /\ \A p \in 1..Len(z.data) : IsInf(z).data[p] = (p = 1)
        /\ Hits(IsInf(z)) = <<1>>

\* C8 as the code has it: z is 1-D, so the inf is the element at index [0];
\* np.isinf(z) is True there only, and np.where(np.isinf(z)) is that one index.
C8_InfAtIndexZero ==
  /\ AfterStmt(47, 1) =>
       LET z == ValOf(k, "z")
       IN  /\ z.shape = <<9>>
           /\ IndexError(z, <<At(0), At(0)>>) = "IndexError"
           /\ IsInfVal(Elem(z, <<0>>))
           /\ \A i \in 0..8 : Elem(IsInf(z), <<i>>) = (i = 0)
  /\ AfterStmt(49, 1) =>
       /\ Len(TupleOf(k, "idx")) = 1
       /\ TupleOf(k, "idx")[1].data = <<0>>

\* C9: z[idx] = 0 with idx = np.where(np.isinf(z)) leaves no inf in z, makes
\* every element that was inf 0, keeps every other element, keeps the shape of
\* z, and leaves a and b as they were.
C9_ReplaceInfThroughIndex ==
  [][(pc = 51 /\ st = 1) =>
       LET z0 == ValOf(k, "z")
           z1 == ValOf(k', "z")
       IN  /\ k'.err = "none"
           /\ TupleOf(k, "idx") = Where(IsInf(z0))
           /\ z1.shape = z0.shape /\ z1.dtype = z0.dtype /\ Len(z1.data) = Len(z0.data)
           /\ \A p \in 1..Len(z1.data) :
                /\ ~IsInfVal(z1.data[p])
                /\ IsInfVal(z0.data[p]) => z1.data[p] = Quot(0, 1)
                /\ ~IsInfVal(z0.data[p]) => z1.data[p] = z0.data[p]
           /\ ValOf(k', "a") = ValOf(k, "a")
           /\ ValOf(k', "b") = ValOf(k, "b")
           /\ TupleOf(k', "idx") = TupleOf(k, "idx")]_vars

\* z[idx] = 0 has run: z[0], which was inf, is 0 and z[1] is still 11.
C9_Witness ==
  /\ AfterStmt(51, 1)
  /\ k.err = "none"
  /\ Elem(ValOf(k, "z"), <<0>>) = Quot(0, 1)
  /\ Elem(ValOf(k, "z"), <<1>>) = Quot(11, 1)

\* C10: assignment by index replaces one value only.  After a[5] = 1000 on
\* a = arange(9), index 5 holds 1000, every other index i still holds i, and
\* the shape of a is still (9,).
C10_AssignmentReplacesOneValue ==
  AfterStmt(9, 1) =>
    LET a == ValOf(k, "a")
    IN  /\ a.shape = <<9>>
        /\ Len(a.data) = 9
        /\ Elem(a, <<5>>) = 1000
        /\ \A i \in 0..8 : i # 5 => Elem(a, <<i>>) = i

\* a[5] = 1000 has run on the 1-D a.
C10_Witness ==
  /\ AfterStmt(9, 1)
  /\ k.err = "none"
  /\ k.env["a"].shape = <<9>>
  /\ Elem(ValOf(k, "a"), <<5>>) = 1000

\* The names bound to an array of d dimensions
ArraysOfRank(d) == {n \in Names : k.env[n].kind = "ndarray" /\ Len(k.env[n].shape) = d}

\* C11: indexing starts at 0 from the front and at -1 from the end.  For every
\* 1-D array of length n the kernel holds, a[0] is the buffer's first element,
\* a[1] its second, and a[-k] is the element a[n-k], the k-th from the end,
\* for every 1 <= k <= n.  On arange(9) the cells print a[0] = 0, a[1] = 1,
\* a[-1] = 8 and a[-2] = 7.  In every 3 X 3 X 3 array a[-1,-1,-1] is the
\* element a[2,2,2], the last of the buffer, and the cell prints 26.
C11_NegativeIndexCountsFromEnd ==
  /\ \A v \in ArraysOfRank(1) :
       LET a == ValOf(k, v)
           n == a.shape[1]
       IN  /\ n >= 1 => Elem(a, <<0>>) = a.data[1]
           /\ n >= 2 => Elem(a, <<1>>) = a.data[2]
           /\ \A j \in 1..n :
                /\ IndexError(a, <<At(-j)>>) = "none"
                /\ Elem(a, <<-j>>) = a.data[n - j + 1]
                /\ Elem(a, <<-j>>) = Elem(a, <<n - j>>)
  /\ \A v \in ArraysOfRank(3) :
       LET a == ValOf(k, v)
       IN  a.shape = <<3, 3, 3>> =>
             /\ Elem(a, <<-1, -1, -1>>) = a.data[27]
             /\ Elem(a, <<-1, -1, -1>>) = Elem(a, <<2, 2, 2>>)
  /\ Done(5) => k.err = "none" /\ Printed = Scalar("int64", 0)
  /\ Done(6) => k.err = "none" /\ Printed = Scalar("int64", 1)
  /\ Done(7) => k.err = "none" /\ Printed = Scalar("int64", 8)
  /\ Done(8) => k.err = "none" /\ Printed = Scalar("int64", 7)
  /\ Done(16) => k.err = "none" /\ Printed = Scalar("int64", 0)
  /\ Done(17) => k.err = "none" /\ Printed = Scalar("int64", 17)
  /\ Done(18) => k.err = "none" /\ Printed = Scalar("int64", 26)

\* print(a[-1]) has run on the 1-D a of length 9 and printed its last element.
C11_Witness ==
  /\ Done(7)
  /\ k.err = "none"
  /\ k.env["a"].shape = <<9>>
  /\ Printed = Scalar("int64", 8)
  /\ Elem(ValOf(k, "a"), <<-1>>) = Elem(ValOf(k, "a"), <<8>>)

\* The reader has come to statement s of cell c, or gone past it.
Reached(c, s) == pc > c \/ (pc = c /\ st >= s)

\* For every name, the first statement of the notebook that reads it.
FirstRead ==
  [np       |-> <<2, 1>>,      \* a = np.array(...)
   a        |-> <<2, 2>>,      \* print(a)
   b        |-> <<10, 2>>,     \* print(b)
   plt      |-> <<12, 1>>,     \* plt.imshow(b)
   mask     |-> <<38, 2>>,     \* plt.imshow(mask)
   idx      |-> <<39, 2>>,     \* print(idx)
   x        |-> <<44, 2>>,     \* print(x)
   i        |-> <<45, 3>>,     \* x[i] = a[i] + b[i]
   y        |-> <<46, 2>>,     \* print(y)
   z        |-> <<47, 2>>,     \* print(z)
   theta    |-> <<59, 2>>,     \* sintheta = np.sin(theta)
   sintheta |-> <<59, 3>>]     \* plt.plot(theta, sintheta)

\* Every statement that indexes an array by integers, slices or a list of
\* integers: cell, statement, name, and the number of axes the index names.
Indexed ==
  <<<<5, 1, "a", 1>>, <<6, 1, "a", 1>>, <<7, 1, "a", 1>>, <<8, 1, "a", 1>>,
    <<9, 1, "a", 1>>,
    <<16, 1, "a", 3>>, <<17, 1, "a", 3>>, <<18, 1, "a", 3>>, <<19, 1, "a", 3>>,
    <<20, 1, "a", 1>>, <<21, 1, "a", 1>>, <<22, 1, "a", 1>>,
    <<23, 1, "a", 3>>, <<24, 1, "a", 3>>,
    <<27, 1, "a", 1>>, <<28, 1, "a", 1>>,
    <<30, 1, "b", 2>>, <<31, 1, "b", 1>>, <<32, 1, "b", 2>>, <<33, 1, "b", 1>>,
    <<45, 3, "x", 1>>, <<45, 3, "a", 1>>, <<45, 3, "b", 1>>,
    <<75, 1, "a", 2>>, <<75, 2, "a", 2>>, <<75, 3, "a", 2>>>>

\* Every statement that indexes an array by the tuple idx: cell, statement,
\* name of the array.
IndexedByIdx == <<<<41, 1, "b">>, <<42, 2, "b">>, <<50, 1, "z">>, <<51, 1, "z">>>>

\* C12: run once each from top to bottom, no cell stops with an error.  Every
\* name is bound from the first statement that reads it on; at every
\* statement that indexes an array, the array has at least as many
\* dimensions as the index names axes (for b[idx] and z[idx]: as idx has
\* index arrays); so the kernel's error flag is never raised, in particular
\* not to NameError or IndexError.
C12_SequentialRunNeverStops ==
  /\ k.err = "none"
  /\ \A n \in DOMAIN FirstRead :
       Reached(FirstRead[n][1], FirstRead[n][2]) => k.env[n].kind # "unbound"
  /\ \A j \in 1..Len(Indexed) :
       LET e == Indexed[j]
       IN  pc = e[1] /\ st = e[2] =>
             /\ k.env[e[3]].kind = "ndarray"
             /\ Len(k.env[e[3]].shape) >= e[4]
  /\ \A j \in 1..Len(IndexedByIdx) :
       LET e == IndexedByIdx[j]
       IN  pc = e[1] /\ st = e[2] =>
             /\ k.env[e[3]].kind = "ndarray"
             /\ k.env["idx"].kind = "tuple"
             /\ Len(k.env[e[3]].shape) >= Len(k.env["idx"].items)
             /\ TupleError(ValOf(k, e[3]), TupleOf(k, "idx")) = "none"

\* The last cell has run: no cell stopped on the way, every name the
\* notebook reads is bound, and the last cell has printed.
C12_Witness ==
  /\ Done(81)
  /\ k.err = "none"
  /\ \A n \in DOMAIN FirstRead : k.env[n].kind # "unbound"
  /\ Len(k.out) >= 1
====
